---- MODULE Spec2Model ----
(***************************************************************************)
(* Model of the anvay compliance checker front end: the checkCompliance    *)
(* service (services/api.ts), the App state machine (App.tsx), the         *)
(* FileUpload input handlers and the ComplianceResults view.               *)
(*                                                                         *)
(* An optional JavaScript value (a property that may be undefined) is a    *)
(* sequence of length 0 (undefined) or 1 (the value).                      *)
(***************************************************************************)
EXTENDS Integers, Sequences, FiniteSets, TLC

\* ------------------------------------------------------------------ bounds
MaxBodyFields == 2
MaxFiles == 2

\* ------------------------------------------------------- optional values
Undefined == <<>>
Some(x) == <<x>>
IsDefined(o) == Len(o) = 1
Get(o) == o[1]

\* ------------------------------------------------------------------ types
\* types/index.ts ComplianceField: value is optional.
ComplianceField(name, detected, value, icon) ==
  [name |-> name, detected |-> detected, value |-> value, icon |-> icon]

\* types/index.ts ComplianceResult.
ComplianceResult(score, extractedText, fields, status) ==
  [score |-> score, extractedText |-> extractedText, fields |-> fields, status |-> status]

\* types/index.ts APIResponse: data and error are optional.
APIResponse(success, data, error) ==
  [success |-> success, data |-> data, error |-> error]

\* The status values the ComplianceResult type declares.
StatusType == {"pass", "partial", "fail"}

\* ------------------------------------------------- the five default fields
\* The inline default of checkCompliance: five fields, none detected, no value.
DefaultFields ==
  << ComplianceField("MRP", FALSE, Undefined, "rupee"),
     ComplianceField("Net Quantity", FALSE, Undefined, "package"),
     ComplianceField("Manufacturer", FALSE, Undefined, "building"),
     ComplianceField("Country of Origin", FALSE, Undefined, "globe"),
     ComplianceField("Manufacturing Date", FALSE, Undefined, "calendar") >>

\* The configured field names, in configuration order.
FieldNames ==
  <<"MRP", "Net Quantity", "Manufacturer", "Country of Origin", "Manufacturing Date">>

\* ------------------------------------------------------- response bodies
\* The icon key the backend sends with a field name (README response format).
IconOf(name) ==
  IF \E i \in 1..Len(DefaultFields) : DefaultFields[i].name = name
  THEN (CHOOSE f \in {DefaultFields[i] : i \in 1..Len(DefaultFields)} : f.name = name).icon
  ELSE "package"

\* Field names a response body may carry: two configured ones and a foreign one.
BodyNames == {"MRP", "Net Quantity", "Batch No"}

\* One field entry of a response body: any name, flag and optional value.
BodyFieldRecs ==
  {ComplianceField(n, d, v, IconOf(n)) : n \in BodyNames, d \in BOOLEAN, v \in {Undefined, Some("150")}}

\* Sequences over S of length at most n.
SeqUpTo(S, n) == UNION {[1..k -> S] : k \in 0..n}

\* The field list a well-formed analysis sends: one entry per configured
\* field in configuration order, a value exactly on the detected ones.
AnalysisFields(mask) ==
  [i \in 1..Len(DefaultFields) |->
     ComplianceField(DefaultFields[i].name, i \in mask,
                     IF i \in mask THEN Some("150") ELSE Undefined,
                     DefaultFields[i].icon)]

AnalysisFieldLists == {AnalysisFields(m) : m \in SUBSET (1..Len(DefaultFields))}

BodyFieldLists == SeqUpTo(BodyFieldRecs, MaxBodyFields) \cup AnalysisFieldLists

\* data.score values: in and out of 0..100, around both thresholds.
BodyScores == {-20, 0, 20, 39, 40, 59, 60, 80, 100, 150}

\* data.status values: empty, the three of the type, and a string outside it.
BodyStatuses == {"", "pass", "partial", "fail", "unknown"}

BodyTexts == {"", "MRP: Rs. 150"}

Optional(S) == {Undefined} \cup {Some(x) : x \in S}

\* A decoded JSON object: each of the four properties may be missing.
Body(score, text, fields, status) ==
  [score |-> score, extracted_text |-> text, fields |-> fields, status |-> status]

Bodies ==
  {Body(s, t, f, st) : s \in Optional(BodyScores), t \in Optional(BodyTexts),
                       f \in Optional(BodyFieldLists), st \in Optional(BodyStatuses)}

\* The bodies the App specification lets the backend send.
AppBodies ==
  {Body(s, t, f, st) : s \in Optional({0, 40, 80}), t \in Optional({"MRP: Rs. 150"}),
                       f \in Optional({<<>>, AnalysisFields({}), AnalysisFields({1, 2, 3, 4})}),
                       st \in Optional({"pass", "fail"})}

EmptyBody == Body(Undefined, Undefined, Undefined, Undefined)

\* ------------------------------------------------------- checkCompliance
\* JavaScript truthiness of an optional number / string / array.
TruthyNumber(o) == IsDefined(o) /\ Get(o) # 0
TruthyString(o) == IsDefined(o) /\ Get(o) # ""
TruthyArray(o) == IsDefined(o)

\* data.score >= n: false when data.score is undefined.
ScoreAtLeast(o, n) == IsDefined(o) /\ Get(o) >= n

\* The derivation written with negated comparisons, !(data.score < 60): an
\* undefined score then passes every test.
statusFromScoreNegated(o) ==
  IF ~(IsDefined(o) /\ Get(o) < 60) THEN "pass"
  ELSE IF ~(IsDefined(o) /\ Get(o) < 40) THEN "partial" ELSE "fail"

\* data.score >= 60 ? 'pass' : data.score >= 40 ? 'partial' : 'fail'
statusFromScore(o) ==
  IF ScoreAtLeast(o, 60) THEN "pass" ELSE IF ScoreAtLeast(o, 40) THEN "partial" ELSE "fail"

\* The transformation of the decoded body into a ComplianceResult.
complianceResult(data) ==
  ComplianceResult(
    IF TruthyNumber(data.score) THEN Get(data.score) ELSE 0,
    IF TruthyString(data.extracted_text) THEN Get(data.extracted_text) ELSE "",
    IF TruthyArray(data.fields) THEN Get(data.fields) ELSE DefaultFields,
    IF TruthyString(data.status) THEN Get(data.status) ELSE statusFromScore(data.score))

\* What the try block can throw: an Error with a message.
HttpError == [isError |-> TRUE, message |-> "HTTP error! status: 500"]
FetchError == [isError |-> TRUE, message |-> "Failed to fetch"]
SyntaxError == [isError |-> TRUE, message |-> "Unexpected token < in JSON"]
NullError == [isError |-> TRUE, message |-> "Cannot read properties of null"]

\* A catch block that masks the failure as an analysis that found nothing.
catchErrorAsZeroScore(thrown) ==
  APIResponse(TRUE, Some(ComplianceResult(0, "", DefaultFields, "fail")), Undefined)

\* The catch block: success=false and the error's message.
catchError(thrown) ==
  APIResponse(FALSE, Undefined,
              Some(IF thrown.isError THEN thrown.message ELSE "An error occurred"))

\* How the request went: what fetch and response.json() did.
FailedOutcomes == {"notOk", "rejected", "malformed", "null"}
SettledOutcomes == {"ok"} \cup FailedOutcomes

Thrown(outcome) ==
  CASE outcome = "notOk" -> HttpError
    [] outcome = "rejected" -> FetchError
    [] outcome = "malformed" -> SyntaxError
    [] outcome = "null" -> NullError

\* checkCompliance from the point where fetch has settled: the value its
\* promise resolves to.
checkCompliance(outcome, data) ==
  IF outcome = "ok"
  THEN APIResponse(TRUE, Some(complianceResult(data)), Undefined)
  ELSE catchError(Thrown(outcome))

\* ------------------------------------------------------------------ files
\* A File: a name and the MIME type the browser reports for it.
MimeTypes == {"image/jpeg", "image/png", "image/webp", "image/gif", "application/pdf"}
Files == [name : 1..MaxFiles, type : MimeTypes]

\* A check on the 'image/' prefix alone: any image type passes.
AcceptedTypeAnyImage(file) == file.type # "application/pdf"

\* ['image/jpeg', 'image/png', 'image/webp'].includes(file.type)
AcceptedType(file) == file.type \in {"image/jpeg", "image/png", "image/webp"}

\* ------------------------------------------------------------------ state
VARIABLES
  state,         \* App: 'upload' | 'preview' | 'processing' | 'results' | 'error'
  selectedFile,  \* App: File | null
  result,        \* App: ComplianceResult | null
  error,         \* App: string
  net,           \* the fetch of the call in flight: idle, pending, hung or settled
  body,          \* the JSON object of an OK response not yet decoded
  data,          \* checkCompliance: the decoded body of the last call
  response,      \* handleCheckCompliance: the APIResponse the last call resolved to
  request        \* checkCompliance: the file argument of the last call

vars == <<state, selectedFile, result, error, net, body, data, response, request>>

AppState == {"upload", "preview", "processing", "results", "error"}

\* useState initial values; no request has been made.
Init ==
  /\ state = "upload"
  /\ selectedFile = Undefined
  /\ result = Undefined
  /\ error = ""
  /\ net = "idle"
  /\ body = Undefined
  /\ data = Undefined
  /\ response = Undefined
  /\ request = Undefined

\* ------------------------------------------------------------ App handlers
handleFileSelect(file) ==
  /\ selectedFile' = Some(file)
  /\ state' = "preview"
  /\ error' = ""
  /\ UNCHANGED <<result, net, body, data, response, request>>

\* FileUpload: the hidden input exists while no file is selected and is
\* disabled while processing; a file of another type is ignored.
handleFileChange(file) ==
  /\ ~IsDefined(selectedFile)
  /\ state # "processing"
  /\ IF AcceptedType(file) THEN handleFileSelect(file) ELSE UNCHANGED vars

\* FileUpload: the drop zone exists while no file is selected.
handleDrop(file) ==
  /\ ~IsDefined(selectedFile)
  /\ IF AcceptedType(file) THEN handleFileSelect(file) ELSE UNCHANGED vars

\* The X button shown whatever `disabled` is: it also clears while processing.
handleClearFileAlways ==
  /\ IsDefined(selectedFile)
  /\ selectedFile' = Undefined
  /\ state' = "upload"
  /\ result' = Undefined
  /\ error' = ""
  /\ UNCHANGED <<net, body, data, response, request>>

\* The X button: shown for a selected file unless disabled (processing).
handleClearFile ==
  /\ IsDefined(selectedFile)
  /\ state # "processing"
  /\ selectedFile' = Undefined
  /\ state' = "upload"
  /\ result' = Undefined
  /\ error' = ""
  /\ UNCHANGED <<net, body, data, response, request>>

\* The Check Compliance button (shown in preview and results) up to the
\* await: the request is sent.
handleCheckCompliance ==
  /\ state \in {"preview", "results"}
  /\ IsDefined(selectedFile)
  /\ state' = "processing"
  /\ error' = ""
  /\ net' = "pending"
  /\ body' = Undefined
  /\ data' = Undefined
  /\ response' = Undefined
  /\ request' = selectedFile
  /\ UNCHANGED <<selectedFile, result>>

\* fetch settles: an OK response carrying a JSON object, an OK response whose
\* body is not JSON or is null, a response that is not OK, or a rejection.
FetchSettles(outcome, b) ==
  /\ net = "pending"
  /\ net' = outcome
  /\ body' = IF outcome = "ok" THEN Some(b) ELSE Undefined
  /\ UNCHANGED <<state, selectedFile, result, error, data, response, request>>

\* The backend never answers: fetch has no timeout and no abort signal.
BackendSilent ==
  /\ net = "pending"
  /\ net' = "hung"
  /\ UNCHANGED <<state, selectedFile, result, error, body, data, response, request>>

\* response.error || 'Failed to check compliance'
ErrorMessage(r) ==
  IF TruthyString(r.error) THEN Get(r.error) ELSE "Failed to check compliance"

\* handleCheckCompliance after the await: checkCompliance has resolved.
Complete ==
  /\ net \in SettledOutcomes
  /\ LET r == checkCompliance(net, IF IsDefined(body) THEN Get(body) ELSE EmptyBody) IN
       /\ response' = Some(r)
       /\ IF r.success /\ IsDefined(r.data)
          THEN /\ result' = r.data
               /\ state' = "results"
               /\ error' = error
          ELSE /\ error' = ErrorMessage(r)
               /\ state' = "error"
               /\ result' = result
  /\ data' = body
  /\ net' = "idle"
  /\ body' = Undefined
  /\ UNCHANGED <<selectedFile, request>>

\* A reset that forgets setResult(null): the old result stays.
handleCheckAnotherKeepsResult ==
  /\ (state = "results" /\ IsDefined(result)) \/ state = "error"
  /\ selectedFile' = Undefined
  /\ error' = ""
  /\ state' = "upload"
  /\ UNCHANGED <<result, net, body, data, response, request>>

\* A reset that forgets setSelectedFile(null): the old file stays.
handleCheckAnotherKeepsFile ==
  /\ (state = "results" /\ IsDefined(result)) \/ state = "error"
  /\ result' = Undefined
  /\ error' = ""
  /\ state' = "upload"
  /\ UNCHANGED <<selectedFile, net, body, data, response, request>>

\* Check Another Product (results view) and Try Again (error view).
handleCheckAnother ==
  /\ (state = "results" /\ IsDefined(result)) \/ state = "error"
  /\ selectedFile' = Undefined
  /\ result' = Undefined
  /\ error' = ""
  /\ state' = "upload"
  /\ UNCHANGED <<net, body, data, response, request>>

Next ==
  \/ \E file \in Files : handleFileChange(file)
  \/ \E file \in Files : handleDrop(file)
  \/ handleClearFile
  \/ handleCheckCompliance
  \/ \E b \in AppBodies : FetchSettles("ok", b)
  \/ \E o \in FailedOutcomes : FetchSettles(o, EmptyBody)
  \/ BackendSilent
  \/ Complete
  \/ handleCheckAnother

Spec == Init /\ [][Next]_vars

\* The continuation of an await runs once its promise has settled; the
\* backend either answers or stays silent.  User actions are not forced.
FairSpec ==
  /\ Spec
  /\ WF_vars(Complete)
  /\ WF_vars((\E b \in AppBodies : FetchSettles("ok", b))
             \/ (\E o \in FailedOutcomes : FetchSettles(o, EmptyBody))
             \/ BackendSilent)

\* ------------------------------------- checkCompliance over all bodies
\* One call of handleCheckCompliance whose fetch has settled, for every
\* outcome and every response body.
InitApi ==
  /\ state = "processing"
  /\ selectedFile = Some([name |-> 1, type |-> "image/jpeg"])
  /\ result = Undefined
  /\ error = ""
  /\ net \in SettledOutcomes
  /\ body \in Optional(Bodies)
  /\ IsDefined(body) <=> net = "ok"
  /\ data = Undefined
  /\ response = Undefined
  /\ request = selectedFile

NextApi == Complete

SpecApi == InitApi /\ [][NextApi]_vars

\* ------------------------------------------------------ ComplianceResults

\* result.fields.filter(field => field.detected)
detectedFields(r) == LET T(f) == f.detected IN SelectSeq(r.fields, T)

\* result.fields.filter(field => !field.detected)
missingFields(r) == LET T(f) == ~f.detected IN SelectSeq(r.fields, T)

\* What a row of the Detected Fields list shows: the name and, if truthy, the value.
DetectedRow(f) == [name |-> f.name, value |-> IF TruthyString(f.value) THEN f.value ELSE Undefined]

\* What a row of the Missing Fields list shows: the name only.
MissingRow(f) == [name |-> f.name, value |-> Undefined]

\* getScoreColor: text-green-600 / text-yellow-600 / text-red-600.
getScoreColor(score) ==
  IF score >= 60 THEN "green" ELSE IF score >= 40 THEN "yellow" ELSE "red"

\* getScoreBorderColor: border-green-200 / border-yellow-200 / border-red-200.
getScoreBorderColor(score) ==
  IF score >= 60 THEN "green" ELSE IF score >= 40 THEN "yellow" ELSE "red"

\* getStatusIcon: CheckCircle green / AlertCircle yellow / XCircle red.
getStatusIcon(score) ==
  IF score >= 60 THEN "green" ELSE IF score >= 40 THEN "yellow" ELSE "red"

\* The labels the paragraph under the heading renders for a status.
StatusLabels(status) ==
  (IF status = "pass" THEN {"Compliant"} ELSE {})
  \cup (IF status = "partial" THEN {"Partially Compliant"} ELSE {})
  \cup (IF status = "fail" THEN {"Non-Compliant"} ELSE {})

\* The result App hands to ComplianceResults, if it renders one.
Displayed == IF state = "results" /\ IsDefined(result) THEN result ELSE Undefined

\* ------------------------------------------------------------ properties
\* checkCompliance has returned success=true; Returned is its data.
HasReturned == IsDefined(response) /\ Get(response).success /\ IsDefined(Get(response).data)
Returned == Get(Get(response).data)

\* The thresholds of the scoring rule: >= 60 pass, 40..59 partial, below 40 fail.
ThresholdStatus(score) ==
  IF score >= 60 THEN "pass" ELSE IF score >= 40 THEN "partial" ELSE "fail"

\* C1: every result returned with success=true has a status among pass,
\* partial, fail, and that status is the one the thresholds give its score,
\* whatever status the response body carried.
C1_StatusAgreesWithScore ==
  HasReturned =>
    /\ Returned.status \in StatusType
    /\ Returned.status = ThresholdStatus(Returned.score)

\* C2: a run whose response is not OK, or whose fetch or decoding throws,
\* resolves to success=false with an error string and no data, and App goes
\* to 'error'; while the last call failed App is not in 'results' and
\* displays no result.
C2_FailureStep ==
  (net \in FailedOutcomes /\ net' = "idle") =>
    /\ IsDefined(response')
    /\ ~Get(response').success
    /\ ~IsDefined(Get(response').data)
    /\ IsDefined(Get(response').error)
    /\ state' = "error"
    /\ error' # ""

C2_FailedState ==
  (IsDefined(response) /\ ~Get(response).success) =>
    /\ ~IsDefined(Get(response).data)
    /\ state # "results"
    /\ Displayed = Undefined

C2_FailureSurfaced == [][C2_FailureStep]_vars /\ []C2_FailedState

\* A failed run has been handled, with the result of an earlier run still held.
C2_Witness ==
  /\ state = "error"
  /\ IsDefined(response)
  /\ ~Get(response).success
  /\ IsDefined(result)

\* Number of entries of a field list that carry the name n.
Occurrences(fields, n) == Cardinality({i \in 1..Len(fields) : fields[i].name = n})

\* C3: every returned result has exactly one entry for each of the five
\* configured fields and no other entry.
C3_OneEntryPerField ==
  HasReturned =>
    /\ Len(Returned.fields) = Len(FieldNames)
    /\ \A k \in 1..Len(FieldNames) : Occurrences(Returned.fields, FieldNames[k]) = 1

\* round(100 * detected / total), halves rounded up as Math.round does.
EqualWeightScore(fields) ==
  (200 * Len(detectedFields([fields |-> fields])) + Len(fields)) \div (2 * Len(fields))

\* C4: the score of every returned result is round(100 * detected / total)
\* of its fields; with no field detected it is 0.
C4_ScoreFromFields ==
  (HasReturned /\ Len(Returned.fields) > 0) =>
    /\ Returned.score = EqualWeightScore(Returned.fields)
    /\ (Len(detectedFields(Returned)) = 0 => Returned.score = 0)

\* The response lacks one of the four parts, so a default stands in for it.
Substituted(b) ==
  \/ ~IsDefined(b.score)
  \/ ~IsDefined(b.extracted_text)
  \/ ~IsDefined(b.fields)
  \/ ~IsDefined(b.status)

\* r is what checkCompliance returns for some body that carries all four parts.
CarriedByResponse(r) ==
  LET b == Body(Some(r.score), Some(r.extractedText), Some(r.fields), Some(r.status)) IN
    /\ r.score \in BodyScores
    /\ r.extractedText \in BodyTexts
    /\ r.fields \in BodyFieldLists
    /\ r.status \in BodyStatuses
    /\ complianceResult(b) = r

\* C5: a result holding substituted default content is marked, so it never
\* equals a result that a response carrying all four parts produces.
C5_SyntheticDistinguished ==
  (HasReturned /\ IsDefined(data) /\ Substituted(Get(data))) => ~CarriedByResponse(Returned)

\* The parts of the result checkCompliance took from the body.
PartsFromResponse(b) ==
  {p \in {"score", "extractedText", "fields", "status"} :
     CASE p = "score" -> TruthyNumber(b.score)
       [] p = "extractedText" -> TruthyString(b.extracted_text)
       [] p = "fields" -> TruthyArray(b.fields)
       [] p = "status" -> TruthyString(b.status)}

\* C6: the result is either wholly the response's or wholly the defaults.
C6_TwoPaths ==
  (HasReturned /\ IsDefined(data)) =>
    Cardinality(PartsFromResponse(Get(data))) \in {0, 4}

\* C7: App always leaves 'processing' for 'results' or 'error'.
C7_NeverHangs == (state = "processing") ~> (state \in {"results", "error"})

\* C8: for an OK response whose body carries none of the four parts,
\* checkCompliance returns success=true, empty text, the five configured
\* fields all with detected=false, score 0 and status 'fail'.
C8_EmptyAnalysis ==
  (IsDefined(response) /\ IsDefined(data) /\ Get(data) = EmptyBody) =>
    /\ HasReturned
    /\ ~IsDefined(Get(response).error)
    /\ Returned.extractedText = ""
    /\ Returned.score = 0
    /\ Returned.status = "fail"
    /\ Len(Returned.fields) = Len(FieldNames)
    /\ \A i \in 1..Len(FieldNames) :
         /\ Returned.fields[i].name = FieldNames[i]
         /\ ~Returned.fields[i].detected
         /\ ~IsDefined(Returned.fields[i].value)

\* The empty body has been transformed.
C8_Witness ==
  /\ IsDefined(response)
  /\ IsDefined(data)
  /\ Get(data) = EmptyBody
  /\ state = "results"

\* Position of a name in the configuration (0 for a name not configured).
ConfigIndex(n) ==
  IF \E k \in 1..Len(FieldNames) : FieldNames[k] = n
  THEN CHOOSE k \in 1..Len(FieldNames) : FieldNames[k] = n
  ELSE 0

\* The detected and the missing list partition the fields, keeping their order.
PartitionKeepsOrder(r) ==
  /\ Len(detectedFields(r)) + Len(missingFields(r)) = Len(r.fields)
  /\ \A i \in 1..Len(r.fields) :
       LET before == SubSeq(r.fields, 1, i) IN
         IF r.fields[i].detected
         THEN detectedFields(r)[Len(detectedFields([fields |-> before]))] = r.fields[i]
         ELSE missingFields(r)[Len(missingFields([fields |-> before]))] = r.fields[i]

\* C9: the fields of every returned result follow the configuration order,
\* and the detected and missing lists partition them in that order.
C9_ConfigurationOrder ==
  HasReturned =>
    /\ \A i, j \in 1..Len(Returned.fields) :
         (i < j /\ ConfigIndex(Returned.fields[i].name) > 0
                /\ ConfigIndex(Returned.fields[j].name) > 0)
           => ConfigIndex(Returned.fields[i].name) <= ConfigIndex(Returned.fields[j].name)
    /\ PartitionKeepsOrder(Returned)

\* The view's lists alone: they partition any returned field list in order.
ViewPartitions == HasReturned => PartitionKeepsOrder(Returned)

\* C10: no field with detected=false carries a value, in the returned result
\* and in the rows the view shows for the missing fields.
C10_MissingHasNoValue ==
  HasReturned =>
    /\ \A i \in 1..Len(Returned.fields) :
         ~Returned.fields[i].detected => ~IsDefined(Returned.fields[i].value)
    /\ \A i \in 1..Len(missingFields(Returned)) :
         ~IsDefined(MissingRow(missingFields(Returned)[i]).value)

\* C11: the score of every returned result, and so every score the view
\* prints, lies in 0..100.
C11_ScoreInRange ==
  /\ HasReturned => Returned.score \in 0..100
  /\ IsDefined(Displayed) => Get(Displayed).score \in 0..100

\* The three MIME types the claim names.
JpegPngWebp == {"image/jpeg", "image/png", "image/webp"}

\* A file-input change or a drop that delivers the file f.
FileInput(f) == handleFileChange(f) \/ handleDrop(f)

C12_SelectedType == IsDefined(selectedFile) => Get(selectedFile).type \in JpegPngWebp
C12_RequestType == IsDefined(request) => Get(request).type \in JpegPngWebp
C12_OtherTypeIgnored ==
  \A f \in Files :
    (f.type \notin JpegPngWebp /\ FileInput(f)) => UNCHANGED <<selectedFile, state, result, error>>

\* C12: a selected file, and so every file handed to checkCompliance, is a
\* JPEG, PNG or WebP; an input of another type changes nothing.
C12_OnlyAcceptedTypes ==
  []C12_SelectedType /\ []C12_RequestType /\ [][C12_OtherTypeIgnored]_vars

\* A WebP file was selected and handed to checkCompliance.
C12_Witness ==
  /\ state = "processing"
  /\ IsDefined(request)
  /\ request = selectedFile
  /\ Get(request).type = "image/webp"

C13_ResultsAreCurrent ==
  state = "results" =>
    /\ IsDefined(result)
    /\ HasReturned
    /\ result = Get(response).data
    /\ request = selectedFile

C13_ErrorIsCurrent ==
  state = "error" =>
    /\ IsDefined(response)
    /\ ~Get(response).success
    /\ error = ErrorMessage(Get(response))
    /\ request = selectedFile

C13_ResetClears ==
  (state # "upload" /\ state' = "upload") =>
    /\ selectedFile' = Undefined
    /\ result' = Undefined
    /\ error' = ""

\* C13: in 'results' the result is the data of the last call, which
\* succeeded and was made for the selected file; the error shown in 'error'
\* is that of the last call; a reset clears file, result and error.
C13_RunsIndependent ==
  []C13_ResultsAreCurrent /\ []C13_ErrorIsCurrent /\ [][C13_ResetClears]_vars

\* The second file's result is shown after it was checked.
C13_Witness ==
  /\ state = "results"
  /\ IsDefined(result)
  /\ Get(selectedFile).name = 2
  /\ request = selectedFile
  /\ Get(result).score = 80

\* Any handler the user can trigger.
UserAction ==
  \/ \E f \in Files : handleFileChange(f)
  \/ \E f \in Files : handleDrop(f)
  \/ handleClearFile
  \/ handleCheckCompliance
  \/ handleCheckAnother

C14_InFlightIsProcessing ==
  /\ net # "idle" <=> state = "processing"
  /\ net # "idle" => request = selectedFile

C14_NoUserAction == state = "processing" => ~ENABLED UserAction

C14_OneRequest ==
  /\ net' = "pending" => net = "idle"
  /\ state = "processing" => (selectedFile' = selectedFile /\ request' = request)
  /\ (state = "processing" /\ state' # "processing") => net \in SettledOutcomes

\* C14: a request is in flight exactly while App is 'processing', a new one
\* starts only when none is in flight, no user handler is enabled while
\* processing, and the completion finds the file the request was started with.
C14_SingleRequest ==
  []C14_InFlightIsProcessing /\ []C14_NoUserAction /\ [][C14_OneRequest]_vars

\* A response has arrived for a re-check of a file whose result was shown.
C14_Witness ==
  /\ state = "processing"
  /\ net = "ok"
  /\ IsDefined(result)
  /\ request = selectedFile

\* C15: selectedFile is null exactly in state 'upload'.
C15_FileIffNotUpload == ~IsDefined(selectedFile) <=> state = "upload"

\* Back in 'upload' after a run was completed and reset.
C15_Witness ==
  /\ state = "upload"
  /\ IsDefined(response)
  /\ ~IsDefined(selectedFile)

\* The colour tier a label stands for.
LabelTier(label) ==
  CASE label = "Compliant" -> "green"
    [] label = "Partially Compliant" -> "yellow"
    [] label = "Non-Compliant" -> "red"

\* C16: for a displayed result exactly one label is shown, and the icon,
\* the score colour and the border colour show that label's tier.
C16_IndicatorsAgree ==
  IsDefined(Displayed) =>
    LET r == Get(Displayed) IN
      /\ Cardinality(StatusLabels(r.status)) = 1
      /\ \A l \in StatusLabels(r.status) :
           /\ getStatusIcon(r.score) = LabelTier(l)
           /\ getScoreColor(r.score) = LabelTier(l)
           /\ getScoreBorderColor(r.score) = LabelTier(l)

====
